---- MODULE Spec2Model ----
(***************************************************************************)
(* Model of node.js: exact Lagrange interpolation at x = 0 over BigInt     *)
(* rationals (gcd, Rational, parseBigInt, computeConstantTerm, main).      *)
(*                                                                         *)
(* BigInt values are TLA+ integers (exact).  A JavaScript string is a      *)
(* sequence of UTF-16 code units (48 = '0', 57 = '9', 65 = 'A', 90 = 'Z',  *)
(* 97 = 'a', 122 = 'z', 45 = '-', 43 = '+').  A call either returns or     *)
(* throws; both are "completion" records:                                  *)
(*     [kind |-> "ok", val |-> value, msg |-> <<>>]         normal return  *)
(*     [kind |-> error kind, val |-> 0, msg |-> <<details>>] throw         *)
(***************************************************************************)
EXTENDS Integers, Sequences, FiniteSets, TLC

VARIABLES
    pc,         \* position in the code: "main", "loop", "exit" (main); "start", "outer",
                \* "inner", "done" (computeConstantTerm, parseBigInt)
    str,        \* parseBigInt: argument str (code units)
    base,       \* parseBigInt: argument base (after Number(base))
    testcase,   \* computeConstantTerm: argument testcase, [k, points] (points in insertion order)
    entries,    \* computeConstantTerm: local entries (after map and slice)
    i,          \* computeConstantTerm: outer loop index (0-based, as in the code)
    j,          \* computeConstantTerm: inner loop index (0-based)
    c,          \* computeConstantTerm: local c (Rational)
    Li,         \* computeConstantTerm: local Li (Rational)
    made,       \* the Rationals constructed by the last step, in construction order
    outcome,    \* completion of the call under test
    testcases,  \* main: the parsed input, [isArray, items]
    idx,        \* main: position of the for-of loop in testcases (0-based)
    log         \* main: lines written so far, [stream, text, kind]

vars == <<pc, str, base, testcase, entries, i, j, c, Li, made, outcome,
          testcases, idx, log>>

----------------------------------------------------------------------------
(* Completions *)

Return(v) == [kind |-> "ok", val |-> v, msg |-> <<>>]

Throw(kind, msg) == [kind |-> kind, val |-> 0, msg |-> msg]

IsOk(r) == r.kind = "ok"

----------------------------------------------------------------------------
(* BigInt primitives *)

Abs(a) == IF a < 0 THEN -a ELSE a

\* BigInt a / b: the quotient truncated towards zero (b # 0)
BigDiv(a, b) ==
    IF (a >= 0) = (b > 0) THEN Abs(a) \div Abs(b) ELSE -(Abs(a) \div Abs(b))

\* BigInt a % b: the remainder with the sign of the dividend (b # 0)
BigRem(a, b) == a - b * BigDiv(a, b)

RECURSIVE gcdLoop(_, _)
gcdLoop(a, b) == IF b # 0 THEN gcdLoop(b, BigRem(a, b)) ELSE a

gcd(a, b) == gcdLoop(IF a < 0 THEN -a ELSE a, IF b < 0 THEN -b ELSE b)

----------------------------------------------------------------------------
(* class Rational: a value is [n |-> numerator, d |-> denominator] *)

\* mutant: the sign of the denominator is not moved to the numerator
RationalNoSign(numerator, denominator) ==
    IF denominator = 0 THEN Throw("DenominatorZero", <<>>)
    ELSE LET g == gcd(numerator, denominator)
         IN  Return([n |-> BigDiv(numerator, g), d |-> BigDiv(denominator, g)])

Rational(numerator, denominator) ==
    IF denominator = 0 THEN Throw("DenominatorZero", <<>>)
    ELSE LET num == IF denominator < 0 THEN -numerator ELSE numerator
             den == IF denominator < 0 THEN -denominator ELSE denominator
             g   == gcd(num, den)
         IN  Return([n |-> BigDiv(num, g), d |-> BigDiv(den, g)])

add(this, r) == Rational(this.n * r.d + r.n * this.d, this.d * r.d)

multiply(this, r) == Rational(this.n * r.n, this.d * r.d)

\* mutant: the quotient, truncated, instead of the integer check
toBigIntTruncating(this) == Return(BigDiv(this.n, this.d))

toBigInt(this) ==
    IF this.d # 1 THEN Throw("NotInteger", <<this.n, this.d>>)
    ELSE Return(this.n)

----------------------------------------------------------------------------
(* parseBigInt *)

\* String.prototype.toLowerCase on one code unit: 'A'..'Z' map to 'a'..'z',
\* the Kelvin sign U+212A (8490) maps to 'k' (107); the other code units of
\* the modelled alphabet are unchanged.
LowerUnit(u) ==
    IF u >= 65 /\ u <= 90 THEN u + 32
    ELSE IF u = 8490 THEN 107
    ELSE u

toLowerCase(s) == [p \in 1..Len(s) |-> LowerUnit(s[p])]

\* mutant: the range check lets the digit equal to the base through
DigitOfInclusive(ch, b) ==
    LET digit == IF ch >= 48 /\ ch <= 57 THEN Return(ch - 48)
                 ELSE IF ch >= 97 /\ ch <= 122 THEN Return(ch - 87)
                 ELSE Throw("InvalidDigit", <<ch, b>>)
    IN  IF ~IsOk(digit) THEN digit
        ELSE IF digit.val > b THEN Throw("DigitOutOfRange", <<ch, b>>)
        ELSE digit

\* the digit of one character of the loop body, or the throw
DigitOf(ch, b) ==
    LET digit == IF ch >= 48 /\ ch <= 57 THEN Return(ch - 48)
                 ELSE IF ch >= 97 /\ ch <= 122 THEN Return(ch - 87)
                 ELSE Throw("InvalidDigit", <<ch, b>>)
    IN  IF ~IsOk(digit) THEN digit
        ELSE IF digit.val >= b THEN Throw("DigitOutOfRange", <<ch, b>>)
        ELSE digit

RECURSIVE parseLoop(_, _, _, _)
parseLoop(s, b, p, result) ==
    IF p > Len(s) THEN Return(result)
    ELSE LET digit == DigitOf(s[p], b)
         IN  IF ~IsOk(digit) THEN digit
             ELSE parseLoop(s, b, p + 1, result * b + digit.val)

parseBigInt(s, b) == parseLoop(toLowerCase(s), b, 1, 0)

----------------------------------------------------------------------------
(* computeConstantTerm: extraction of the points *)

IsDecimalDigits(s) == Len(s) >= 1 /\ \A p \in 1..Len(s) : s[p] >= 48 /\ s[p] <= 57

RECURSIVE DecimalValue(_, _, _)
DecimalValue(s, p, acc) ==
    IF p > Len(s) THEN acc ELSE DecimalValue(s, p + 1, acc * 10 + (s[p] - 48))

\* BigInt(xStr) for the modelled labels: the empty string is 0n, an optionally
\* signed run of decimal digits is its value, anything else a SyntaxError
BigIntFromString(s) ==
    IF s = <<>> THEN Return(0)
    ELSE IF IsDecimalDigits(s) THEN Return(DecimalValue(s, 1, 0))
    ELSE IF s[1] = 45 /\ IsDecimalDigits(Tail(s)) THEN Return(-DecimalValue(Tail(s), 1, 0))
    ELSE IF s[1] = 43 /\ IsDecimalDigits(Tail(s)) THEN Return(DecimalValue(Tail(s), 1, 0))
    ELSE Throw("SyntaxError", <<>>)

\* A property key that is an array index: a canonical numeric string (no sign,
\* no leading zero) below 2^32 - 1.  Labels of up to 9 digits are all below it;
\* longer labels are not modelled.
IsArrayIndex(s) ==
    IsDecimalDigits(s) /\ (Len(s) = 1 \/ s[1] # 48) /\ Len(s) <= 9

RECURSIVE AscendingIndexKeys(_, _)
AscendingIndexKeys(points, S) ==
    IF S = {} THEN <<>>
    ELSE LET m == CHOOSE p \in S : \A q \in S :
                      DecimalValue(points[p].label, 1, 0) <= DecimalValue(points[q].label, 1, 0)
         IN  <<points[m]>> \o AscendingIndexKeys(points, S \ {m})

IsStringKey(e) == ~IsArrayIndex(e.label)

\* mutant: the keys in the order they were written
ObjectEntriesAsWritten(points) == points

\* Object.entries(pointsRaw): own keys in property order, which is the array
\* index keys in ascending numeric order, then the other keys in insertion order
ObjectEntries(points) ==
    AscendingIndexKeys(points, {p \in 1..Len(points) : IsArrayIndex(points[p].label)})
        \o SelectSeq(points, IsStringKey)

\* the callback of .map: { x: BigInt(xStr), y: parseBigInt(value, Number(base)) }
MapEntry(e) ==
    LET x == BigIntFromString(e.label)
        y == parseBigInt(e.value, e.base)
    IN  IF ~IsOk(x) THEN x
        ELSE IF ~IsOk(y) THEN y
        ELSE Return([x |-> x.val, y |-> y.val])

RECURSIVE MapEntries(_, _, _)
MapEntries(raw, p, acc) ==
    IF p > Len(raw) THEN Return(acc)
    ELSE LET m == MapEntry(raw[p])
         IN  IF ~IsOk(m) THEN m ELSE MapEntries(raw, p + 1, Append(acc, m.val))

\* Array.prototype.slice(0, k) for k >= 0
Slice0(a, k) == SubSeq(a, 1, IF k < Len(a) THEN k ELSE Len(a))

\* lines 84-89: Object.entries(...).map(...).slice(0, k)
ExtractEntries(tc) ==
    LET mapped == MapEntries(ObjectEntries(tc.points), 1, <<>>)
    IN  IF ~IsOk(mapped) THEN mapped ELSE Return(Slice0(mapped.val, tc.k))

----------------------------------------------------------------------------
(* computeConstantTerm: the interpolation loops *)

\* mutant: a point with the x of point i is skipped, as point i itself is
InnerBodySkipEqual(L, xi, xj) ==
    IF xi = xj THEN Return(L)
    ELSE LET f == Rational(-xj, xi - xj)
         IN  IF ~IsOk(f) THEN f ELSE multiply(L, f.val)

\* line 100: Li = Li.multiply(new Rational(-xj, xi - xj))
InnerBody(L, xi, xj) ==
    LET f == Rational(-xj, xi - xj)
    IN  IF ~IsOk(f) THEN f ELSE multiply(L, f.val)

\* mutant: the term is assigned to c, not added to it
OuterBodyOverwrite(acc, L, yi) == multiply(L, Rational(yi, 1).val)

\* line 103: c = c.add(Li.multiply(new Rational(yi, 1n)))
OuterBody(acc, L, yi) ==
    LET y == Rational(yi, 1)
        t == multiply(L, y.val)
    IN  add(acc, t.val)

\* mutant: the loops run over the entries there are
LoopBoundLen(e, k) == Len(e)

\* the bound of both loops (i < k, j < k)
LoopBound(e, k) == k

\* lines 97-100: one iteration of the inner loop; entries[j] may be undefined
InnerIter(e, ii, jj, L) ==
    IF jj = ii THEN Return(L)
    ELSE IF jj >= Len(e) THEN Throw("TypeError", <<>>)
    ELSE InnerBody(L, e[ii + 1].x, e[jj + 1].x)

RECURSIVE InnerLoop(_, _, _, _, _)
InnerLoop(e, k, ii, jj, L) ==
    IF jj >= LoopBound(e, k) THEN Return(L)
    ELSE LET r == InnerIter(e, ii, jj, L)
         IN  IF ~IsOk(r) THEN r ELSE InnerLoop(e, k, ii, jj + 1, r.val)

\* lines 94-95: destructure entries[i], which may be undefined; Li = new Rational(1n, 1n)
OuterEntry(e, ii) ==
    IF ii >= Len(e) THEN Throw("TypeError", <<>>) ELSE Rational(1, 1)

RECURSIVE OuterLoop(_, _, _, _)
OuterLoop(e, k, ii, acc) ==
    IF ii >= LoopBound(e, k) THEN Return(acc)
    ELSE LET L0 == OuterEntry(e, ii)
             L  == IF ~IsOk(L0) THEN L0 ELSE InnerLoop(e, k, ii, 0, L0.val)
         IN  IF ~IsOk(L) THEN L
             ELSE OuterLoop(e, k, ii + 1, OuterBody(acc, L.val, e[ii + 1].y).val)

\* lines 92-107 as one function of entries and k
Interpolate(e, k) ==
    LET sum == OuterLoop(e, k, 0, Rational(0, 1).val)
    IN  IF ~IsOk(sum) THEN sum ELSE toBigInt(sum.val)

\* computeConstantTerm as one function of its argument
computeConstantTerm(tc) ==
    LET ex == ExtractEntries(tc)
    IN  IF ~IsOk(ex) THEN ex ELSE Interpolate(ex.val, tc.k)

----------------------------------------------------------------------------
(* BigInt.prototype.toString(): the decimal digits, '-' first when negative *)

RECURSIVE DecimalDigits(_)
DecimalDigits(n) ==
    IF n < 10 THEN <<48 + n>> ELSE Append(DecimalDigits(n \div 10), 48 + (n % 10))

toString(n) == IF n < 0 THEN <<45>> \o DecimalDigits(-n) ELSE DecimalDigits(n)

----------------------------------------------------------------------------
(* Bounds and input sets *)

MaxK == 3           \* largest threshold keys.k
MaxPoints == 3      \* most points in one test case
MaxStrLen == 2      \* longest digit string handed to parseBigInt on its own
MaxCases == 2       \* most test cases in one input.json
MaxCoef == 2        \* largest |coefficient| of the polynomials the points are compared with

\* x labels: "1", "2", "02", "-1" (two array-index keys, two string keys; "2" and
\* "02" name the same x)
Labels == { <<49>>, <<50>>, <<48, 50>>, <<45, 49>> }

\* x labels with x = 0: "0", "1", "-1"
ZeroLabels == { <<48>>, <<49>>, <<45, 49>> }

\* share values: "0"/10 = 0, "1"/10 = 1, "10"/2 = 2, and "a"/10 (no digit of base 10)
Values == { [base |-> 10, value |-> <<48>>], [base |-> 10, value |-> <<49>>],
            [base |-> 2, value |-> <<49, 48>>], [base |-> 10, value |-> <<97>>] }

\* the share values that parse
ValidValues == { v \in Values : IsOk(parseBigInt(v.value, v.base)) }

Point(l, v) == [label |-> l, base |-> v.base, value |-> v.value]

\* the points of a test case in insertion order: the keys of an object are distinct
PointSeqs(L, V) ==
    UNION { { [p \in 1..n |-> Point(f[p][1], f[p][2])] :
                f \in { g \in [1..n -> L \X V] :
                          \A p, q \in 1..n : p # q => g[p][1] # g[q][1] } } :
            n \in 0..MaxPoints }

\* the two worked examples: f(x) = x + 5 at x = 1, 2, 3 and f(x) = 2x + 8 at
\* x = 1 ("a" in base 16), x = 2 ("14" in base 8)
Scenario1 ==
    [k |-> 3, points |-> << [label |-> <<49>>, base |-> 10, value |-> <<54>>],
                            [label |-> <<50>>, base |-> 10, value |-> <<55>>],
                            [label |-> <<51>>, base |-> 10, value |-> <<56>>] >>]

Scenario2 ==
    [k |-> 2, points |-> << [label |-> <<49>>, base |-> 16, value |-> <<97>>],
                            [label |-> <<50>>, base |-> 8, value |-> <<49, 52>>] >>]

TestCases ==
    { [k |-> k, points |-> p] :
        k \in 1..MaxK, p \in PointSeqs(Labels, Values) \cup PointSeqs(ZeroLabels, ValidValues) }

\* code units for parseBigInt: 0 1 9 a f z A F Z, the neighbours / : ` { @ [ of
\* the three ranges, '!', and the Kelvin sign
Alphabet == { 48, 49, 57, 97, 102, 122, 65, 70, 90, 47, 58, 96, 123, 64, 91, 33, 8490 }

Strings == UNION { [1..n -> Alphabet] : n \in 0..MaxStrLen }

\* "ff", "1010", "z"
ScenarioStrings == { <<102, 102>>, <<49, 48, 49, 48>>, <<122>> }

Radixes == 2..36

\* test cases of input.json: the worked examples and one case per kind of failure
CasePool ==
    { Scenario1, Scenario2,
      [k |-> 1, points |-> << [label |-> <<49>>, base |-> 10, value |-> <<33>>] >>],
      [k |-> 1, points |-> << [label |-> <<49>>, base |-> 10, value |-> <<102>>] >>],
      [k |-> 2, points |-> << [label |-> <<49>>, base |-> 10, value |-> <<53>>],
                              [label |-> <<48, 49>>, base |-> 10, value |-> <<53>>] >>],
      [k |-> 2, points |-> << [label |-> <<49>>, base |-> 10, value |-> <<49>>],
                              [label |-> <<51>>, base |-> 10, value |-> <<50>>] >>],
      [k |-> 2, points |-> << [label |-> <<49>>, base |-> 10, value |-> <<55>>] >>] }

Inputs ==
    { [isArray |-> TRUE, items |-> a] : a \in UNION { [1..n -> CasePool] : n \in 0..MaxCases } }
        \cup { [isArray |-> FALSE, items |-> <<t>>] : t \in CasePool }

----------------------------------------------------------------------------
(* State machine *)

Pending == [kind |-> "pending", val |-> 0, msg |-> <<>>]

Unset == [n |-> 0, d |-> 0]     \* a local not yet assigned

NoTestCase == [k |-> 1, points |-> <<>>]

NoInput == [isArray |-> TRUE, items |-> <<>>]

LocalsUnset ==
    /\ entries = <<>> /\ i = 0 /\ j = 0 /\ c = Unset /\ Li = Unset
    /\ made = <<>> /\ outcome = Pending

\* one call computeConstantTerm(testcase)
Init ==
    /\ pc = "start"
    /\ testcase \in TestCases \cup {Scenario1, Scenario2}
    /\ LocalsUnset
    /\ str = <<>> /\ base = 10
    /\ testcases = NoInput /\ idx = 0 /\ log = <<>>

\* one call parseBigInt(str, base)
InitParse ==
    /\ pc = "start"
    /\ str \in Strings \cup ScenarioStrings
    /\ base \in Radixes
    /\ testcase = NoTestCase
    /\ LocalsUnset
    /\ testcases = NoInput /\ idx = 0 /\ log = <<>>

\* main() after input.json was read and parsed
InitMain ==
    /\ pc = "main"
    /\ testcases \in Inputs
    /\ idx = 0 /\ log = <<>>
    /\ testcase = NoTestCase
    /\ LocalsUnset
    /\ str = <<>> /\ base = 10

mainVars == <<testcases, idx, log>>
parseVars == <<str, base>>

\* the throw of a step: the call ends with the error
ThrowFrom(e) ==
    /\ outcome' = e
    /\ pc' = "done"

\* lines 80-92: destructure, extract the entries, c = new Rational(0n, 1n)
Extract ==
    /\ pc = "start"
    /\ LET ex == ExtractEntries(testcase)
       IN  IF ~IsOk(ex)
           THEN /\ ThrowFrom(ex)
                /\ UNCHANGED <<entries, i, j, c, Li, made>>
           ELSE /\ entries' = ex.val
                /\ c' = Rational(0, 1).val
                /\ made' = <<c'>>
                /\ i' = 0
                /\ pc' = "outer"
                /\ UNCHANGED <<j, Li, outcome>>
    /\ UNCHANGED <<testcase, parseVars, mainVars>>

\* lines 93-95: i < k, destructure entries[i], Li = new Rational(1n, 1n), j = 0
OuterEnter ==
    /\ pc = "outer"
    /\ i < LoopBound(entries, testcase.k)
    /\ LET L0 == OuterEntry(entries, i)
       IN  IF ~IsOk(L0)
           THEN /\ ThrowFrom(L0)
                /\ UNCHANGED <<j, Li, made>>
           ELSE /\ Li' = L0.val
                /\ made' = <<Li'>>
                /\ j' = 0
                /\ pc' = "inner"
                /\ UNCHANGED outcome
    /\ UNCHANGED <<testcase, entries, i, c, parseVars, mainVars>>

\* lines 96-101: one iteration of the inner loop
InnerStep ==
    /\ pc = "inner"
    /\ j < LoopBound(entries, testcase.k)
    /\ LET r == InnerIter(entries, i, j, Li)
       IN  IF ~IsOk(r)
           THEN /\ ThrowFrom(r)
                /\ UNCHANGED <<j, Li, made>>
           ELSE /\ Li' = r.val
                /\ made' = IF j = i THEN <<>>
                           ELSE <<Rational(-entries[j + 1].x,
                                           entries[i + 1].x - entries[j + 1].x).val, r.val>>
                /\ j' = j + 1
                /\ UNCHANGED <<pc, outcome>>
    /\ UNCHANGED <<testcase, entries, i, c, parseVars, mainVars>>

\* lines 102-104: the inner loop is over, c = c.add(Li.multiply(new Rational(yi, 1n))), i++
OuterAdd ==
    /\ pc = "inner"
    /\ j >= LoopBound(entries, testcase.k)
    /\ LET y == Rational(entries[i + 1].y, 1).val
           t == multiply(Li, y).val
       IN  /\ c' = OuterBody(c, Li, entries[i + 1].y).val
           /\ made' = <<y, t, c'>>
    /\ i' = i + 1
    /\ pc' = "outer"
    /\ UNCHANGED <<testcase, entries, j, Li, outcome, parseVars, mainVars>>

\* lines 106-107: the outer loop is over, return c.toBigInt()
Finish ==
    /\ pc = "outer"
    /\ i >= LoopBound(entries, testcase.k)
    /\ outcome' = toBigInt(c)
    /\ pc' = "done"
    /\ made' = <<>>
    /\ UNCHANGED <<testcase, entries, i, j, c, Li, parseVars, mainVars>>

Step == Extract \/ OuterEnter \/ InnerStep \/ OuterAdd \/ Finish

Next == Step

Spec == Init /\ [][Next]_vars

\* lines 58-76 as one step
ParseCall ==
    /\ pc = "start"
    /\ outcome' = parseBigInt(str, base)
    /\ pc' = "done"
    /\ UNCHANGED <<str, base, testcase, entries, i, j, c, Li, made, mainVars>>

NextParse == ParseCall

SpecParse == InitParse /\ [][NextParse]_vars

\* lines 125-127: a lone test case is wrapped in an array
MainStart ==
    /\ pc = "main"
    /\ testcases' = [isArray |-> TRUE, items |-> testcases.items]
    /\ idx' = 0
    /\ pc' = "loop"
    /\ UNCHANGED <<log, testcase, entries, i, j, c, Li, made, outcome, parseVars>>

\* lines 129-131: the next tc of the for-of loop, computeConstantTerm(tc) is called
MainCall ==
    /\ pc = "loop"
    /\ idx < Len(testcases.items)
    /\ testcase' = testcases.items[idx + 1]
    /\ outcome' = Pending
    /\ pc' = "start"
    /\ UNCHANGED <<entries, i, j, c, Li, made, parseVars, mainVars>>

\* mutant: the catch block leaves the loop
IndexAfterCatchAbort(at, n) == n

\* the index of the for-of loop after the catch block: the loop goes on
IndexAfterCatch(at, n) == at + 1

\* line 132: the call returned, console.log(secret.toString())
MainPrint ==
    /\ pc = "done"
    /\ IsOk(outcome)
    /\ log' = Append(log, [stream |-> "stdout", text |-> toString(outcome.val), kind |-> "ok"])
    /\ idx' = idx + 1
    /\ pc' = "loop"
    /\ UNCHANGED <<testcases, testcase, entries, i, j, c, Li, made, outcome, parseVars>>

\* lines 133-135: the call threw, console.error(..., e.message)
MainCatch ==
    /\ pc = "done"
    /\ ~IsOk(outcome)
    /\ log' = Append(log, [stream |-> "stderr", text |-> <<>>, kind |-> outcome.kind])
    /\ idx' = IndexAfterCatch(idx, Len(testcases.items))
    /\ pc' = "loop"
    /\ UNCHANGED <<testcases, testcase, entries, i, j, c, Li, made, outcome, parseVars>>

\* line 136-137: the for-of loop is over, main returns
MainEnd ==
    /\ pc = "loop"
    /\ idx >= Len(testcases.items)
    /\ pc' = "exit"
    /\ UNCHANGED <<testcases, idx, log, testcase, entries, i, j, c, Li, made, outcome, parseVars>>

NextMain == MainStart \/ MainCall \/ Step \/ MainPrint \/ MainCatch \/ MainEnd

SpecMain == InitMain /\ [][NextMain]_vars

\* the two models of computeConstantTerm agree: the steps end as the function does
StepsAgree == pc = "done" => outcome = computeConstantTerm(testcase)

----------------------------------------------------------------------------
(* What the claims speak of *)

NumPoints == Len(testcase.points)

\* every point of the test case has a label and a digit string that parse
AllParse == \A p \in 1..NumPoints : IsOk(MapEntry(testcase.points[p]))

\* position q comes before position p in the property order of the object:
\* array-index keys first, by ascending value, then the other keys as inserted
Before(q, p) ==
    LET a == testcase.points[q].label
        b == testcase.points[p].label
    IN  \/ IsArrayIndex(a) /\ ~IsArrayIndex(b)
        \/ IsArrayIndex(a) /\ IsArrayIndex(b) /\ DecimalValue(a, 1, 0) < DecimalValue(b, 1, 0)
        \/ ~IsArrayIndex(a) /\ ~IsArrayIndex(b) /\ q < p

Rank(p) == Cardinality({q \in 1..NumPoints : Before(q, p)}) + 1

\* the positions (in insertion order) of the first k points in property order
FirstK == {p \in 1..NumPoints : Rank(p) <= testcase.k}

XOf(p) == BigIntFromString(testcase.points[p].label).val
YOf(p) == parseBigInt(testcase.points[p].value, testcase.points[p].base).val

DistinctX(S) == \A p, q \in S : p # q => XOf(p) # XOf(q)

RECURSIVE PolyEval(_, _, _)
\* f[1] + f[2] x + ... + f[n] x^(n-1), from coefficient m on
PolyEval(f, m, x) == IF m > Len(f) THEN 0 ELSE f[m] + x * PolyEval(f, m + 1, x)

Polys(k) == [1..k -> (-MaxCoef)..MaxCoef]

\* the first k points (in property order) are k parsable points with pairwise
\* distinct x on the polynomial f
FirstKOn(f) ==
    /\ Cardinality(FirstK) = testcase.k
    /\ \A p \in FirstK : IsOk(MapEntry(testcase.points[p]))
    /\ DistinctX(FirstK)
    /\ \A p \in FirstK : YOf(p) = PolyEval(f, 1, XOf(p))

\* the test case with only its first k points (in property order)
Truncated ==
    [k |-> testcase.k,
     points |-> SubSeq(ObjectEntries(testcase.points), 1,
                       IF testcase.k < NumPoints THEN testcase.k ELSE NumPoints)]

\* C1 (as claimed): whenever the first k points of the test case are k points
\* with pairwise distinct x on a polynomial f of degree < k with integer
\* coefficients, computeConstantTerm returns f(0).
C1_RoundTrip ==
    pc = "done" =>
        \A f \in Polys(testcase.k) : FirstKOn(f) => outcome = Return(f[1])

\* the round trip when every supplied point parses (the case C1_RoundTrip fails
\* in is a point after the first k that does not parse)
RoundTripAllParse ==
    (pc = "done" /\ AllParse) =>
        \A f \in Polys(testcase.k) : FirstKOn(f) => outcome = Return(f[1])

RoundTripReached ==
    /\ pc = "done" /\ AllParse /\ testcase.k = 3 /\ NumPoints = 3
    /\ FirstKOn(<<0, -1, 1>>) /\ outcome = Return(0)

Scenario1Reached == pc = "done" /\ testcase = Scenario1 /\ outcome = Return(5)

Scenario2Reached == pc = "done" /\ testcase = Scenario2 /\ outcome = Return(8)

\* C2 (as claimed): with more than k points supplied and the first k on the
\* polynomial f, the call ends as it does on the first k points alone, with
\* f(0): what the points after the first k hold changes nothing.
C2_TrailingIgnored ==
    (pc = "done" /\ NumPoints > testcase.k) =>
        \A f \in Polys(testcase.k) :
            FirstKOn(f) => /\ outcome = computeConstantTerm(Truncated)
                           /\ outcome = Return(f[1])

\* the (x, y) of the point at position p
ParsedPoint(p) == [x |-> XOf(p), y |-> YOf(p)]

\* the call has just extracted its entries
JustExtracted == pc = "outer" /\ i = 0

Selected == pc = "done" /\ AllParse /\ NumPoints >= testcase.k

K == testcase.k

\* entries in the order perm
Permuted(perm) == [q \in 1..K |-> entries[perm[q]]]

\* C4: whatever order the k selected points are in, the interpolation ends the
\* same way: the same integer returned, or an error of the same kind.
C4_OrderIndependent ==
    Selected =>
        \A perm \in Permutations(1..K) :
            LET r == Interpolate(Permuted(perm), K)
            IN  r.kind = outcome.kind /\ r.val = outcome.val

\* three points with distinct x and y not all equal, interpolated to an integer
C4_ThreePoints ==
    /\ Selected /\ K = 3 /\ IsOk(outcome)
    /\ entries[1].y # entries[2].y /\ entries[2].y # entries[3].y

\* two of the k selected points have the same x
DuplicateX == \E p, q \in 1..K : p < q /\ entries[p].x = entries[q].x

\* C5: when every digit string parses and at least k >= 2 points are supplied,
\* the call fails with 'Denominator cannot be zero' if two of the first k
\* points have the same x, and never with that error otherwise (a duplicate
\* among the points after the first k does not raise it).
C5_DuplicateXThrows ==
    (Selected /\ K >= 2) => (DuplicateX <=> outcome.kind = "DenominatorZero")

\* "2" and "02" are both among the first k = 3 points and not next to each other
C5_DuplicateReached ==
    /\ Selected /\ K = 3 /\ outcome.kind = "DenominatorZero"
    /\ entries[2].x = entries[3].x /\ entries[1].x # entries[2].x

RECURSIVE ProductOf(_, _)
ProductOf(s, m) == IF m > Len(s) THEN 1 ELSE s[m] * ProductOf(s, m + 1)

RECURSIVE SumOf(_, _)
SumOf(s, m) == IF m > Len(s) THEN 0 ELSE s[m] + SumOf(s, m + 1)

\* the Lagrange sum at 0 of the k selected points as one fraction LagrangeN /
\* LagrangeD: term q is y_q * prod_{r # q} (-x_r) over prod_{r # q} (x_q - x_r)
TermDen(q) ==
    ProductOf([r \in 1..K |-> IF r = q THEN 1 ELSE entries[q].x - entries[r].x], 1)

TermNum(q) ==
    entries[q].y * ProductOf([r \in 1..K |-> IF r = q THEN 1 ELSE -entries[r].x], 1)

LagrangeD == ProductOf([q \in 1..K |-> TermDen(q)], 1)

LagrangeN ==
    SumOf([q \in 1..K |->
             TermNum(q) * ProductOf([r \in 1..K |-> IF r = q THEN 1 ELSE TermDen(r)], 1)], 1)

SumIsInteger == LagrangeN % Abs(LagrangeD) = 0

\* C6: for k selected points with pairwise distinct x, the accumulated c is
\* the exact Lagrange sum; the call fails with 'Result is not an integer' when
\* the sum is no integer, and returns the numerator exactly when the stored
\* denominator is 1, so that a returned v is the sum itself.
C6_NoRounding ==
    (Selected /\ ~DuplicateX) =>
        /\ c.n * LagrangeD = LagrangeN * c.d
        /\ ~SumIsInteger => outcome.kind = "NotInteger"
        /\ IsOk(outcome) <=> c.d = 1
        /\ IsOk(outcome) => outcome.val = c.n /\ outcome.val * LagrangeD = LagrangeN
        /\ ~IsOk(outcome) => outcome = Throw("NotInteger", <<c.n, c.d>>)

\* three points with distinct x whose sum is a fraction with |numerator| > denominator
C6_FractionReached ==
    /\ Selected /\ ~DuplicateX /\ K = 3
    /\ outcome.kind = "NotInteger" /\ c.d > 1 /\ Abs(c.n) > c.d

\* r is in lowest terms with a positive denominator, zero being 0/1
Reduced(r) ==
    /\ r.d > 0
    /\ \A g \in 2..r.d : ~(r.d % g = 0 /\ Abs(r.n) % g = 0)
    /\ r.n = 0 => r.d = 1

\* C7: every Rational constructed at any step of the call (the constants, the
\* factors (-xj)/(xi - xj) of either sign, the products and the sums), and so
\* every value of c and Li, has a positive denominator and is in lowest terms,
\* zero being stored as 0/1.
C7_ReductionInvariant ==
    /\ \A q \in 1..Len(made) : Reduced(made[q])
    /\ c # Unset => Reduced(c)
    /\ Li # Unset => Reduced(Li)

\* the factor built from (-2, -3) (xi = -1, xj = 2) is stored as 2/3, and its
\* product 2/6 with Li = 1/2 as 1/3
C7_NegativeDenominator ==
    /\ pc = "inner" /\ Len(made) = 2 /\ j >= 1 /\ j # i + 1
    /\ entries[i + 1].x = -1 /\ entries[j].x = 2
    /\ made[1] = [n |-> 2, d |-> 3]
    /\ made[2] = [n |-> 1, d |-> 3]

\* the factor built from (-0, -1) (xi = -1, xj = 0) is stored as 0/1
ZeroFactorReached ==
    /\ pc = "inner" /\ Len(made) = 2 /\ j >= 1 /\ j # i + 1
    /\ entries[i + 1].x = -1 /\ entries[j].x = 0
    /\ made[1] = [n |-> 0, d |-> 1]

\* C10: with fewer than k points supplied, all of them parsable, the call
\* throws: it returns no value.
C10_UnderSupplied ==
    (pc = "done" /\ AllParse /\ NumPoints < K) => outcome.kind \notin {"ok", "pending"}

\* two points supplied for k = 3: entries[2] is undefined in the inner loop
C10_TwoOfThree ==
    /\ pc = "done" /\ AllParse /\ NumPoints = 2 /\ K = 3
    /\ outcome.kind = "TypeError" /\ i = 0 /\ j = 2

\* the value of a code unit as a digit, whatever its case (the Kelvin sign is a
\* 'k' once lowercased), or -1 when it is no digit or letter
UnitValue(u) ==
    IF u >= 48 /\ u <= 57 THEN u - 48
    ELSE IF u >= 97 /\ u <= 122 THEN u - 97 + 10
    ELSE IF u >= 65 /\ u <= 90 THEN u - 65 + 10
    ELSE IF u = 8490 THEN 20
    ELSE -1

Offending(p) == UnitValue(str[p]) = -1 \/ UnitValue(str[p]) >= base

FirstOffending == CHOOSE p \in 1..Len(str) : Offending(p) /\ \A q \in 1..(p - 1) : ~Offending(q)

\* sum of digit_p * base^(len - p)
PositionalValue == SumOf([p \in 1..Len(str) |-> UnitValue(str[p]) * base ^ (Len(str) - p)], 1)

\* C8: for a radix in 2..36, parseBigInt returns the positional value of the
\* string when every character is a digit or letter (of either case) of value
\* below the radix; otherwise it throws at the first character that is not,
\* 'Invalid digit' for a character that is no digit or letter and 'Digit out
\* of range' for a value >= radix.  "ff"/16 = 255, "1010"/2 = 10, "z"/36 = 35.
C8_DigitParser ==
    pc = "done" =>
        /\ IF \A p \in 1..Len(str) : ~Offending(p)
           THEN outcome = Return(PositionalValue) /\ outcome.val >= 0
           ELSE LET u == str[FirstOffending]
                IN  /\ outcome.kind = IF UnitValue(u) = -1
                                      THEN "InvalidDigit" ELSE "DigitOutOfRange"
                    /\ outcome.msg = <<IF UnitValue(u) >= 10 THEN 97 + UnitValue(u) - 10 ELSE u, base>>
        /\ (str = <<102, 102>> /\ base = 16) => outcome = Return(255)
        /\ (str = <<49, 48, 49, 48>> /\ base = 2) => outcome = Return(10)
        /\ (str = <<122>> /\ base = 36) => outcome = Return(35)

\* "Ff" in base 16 is 255
C8_MixedCase == pc = "done" /\ str = <<70, 102>> /\ base = 16 /\ outcome = Return(255)

\* "1F" in base 15 fails at the 'f', the digit equal to the base
C8_DigitEqualToBase ==
    /\ pc = "done" /\ str = <<49, 70>> /\ base = 15
    /\ outcome = Throw("DigitOutOfRange", <<102, 15>>)

Items == testcases.items

\* what main writes for the test case t on its own
LineFor(t) ==
    LET r == computeConstantTerm(t)
    IN  IF IsOk(r) THEN [stream |-> "stdout", text |-> toString(r.val), kind |-> "ok"]
        ELSE [stream |-> "stderr", text |-> <<>>, kind |-> r.kind]

\* C9: main takes the cases in input order and writes exactly one line per
\* case, the secret in decimal on stdout or the error on stderr, which is what
\* the case gives on its own; a case that fails does not stop the loop, which
\* ends only after the last case.
C9_PerCaseIsolation ==
    /\ Len(log) = idx
    /\ idx <= Len(Items)
    /\ \A q \in 1..Len(log) :
          /\ log[q] = LineFor(Items[q])
          /\ log[q].stream = "stdout" =>
                BigIntFromString(log[q].text) = computeConstantTerm(Items[q])
    /\ pc = "exit" => idx = Len(Items)

\* a case that fails, then a case that succeeds, both reported
C9_FailureThenSuccess ==
    /\ pc = "exit" /\ Len(Items) = 2
    /\ log[1].stream = "stderr" /\ log[1].kind = "DenominatorZero"
    /\ log[2] = [stream |-> "stdout", text |-> <<53>>, kind |-> "ok"]

====
